---- MODULE Spec2Model ----
(***************************************************************************)
(* TrguiNG file tree: the tri-state file selection tree (CachedFileTree)   *)
(* and the React handlers that drive it (FileTreePane, NameField,          *)
(* FileTreeTable, FiletreeContextMenu), and the torrent action dispatch    *)
(* table (ActionController).  A path is the sequence of its "/"-separated  *)
(* segments.                                                               *)
(***************************************************************************)
EXTENDS Integers, Sequences, FiniteSets, TLC

VARIABLES
    torrent,      \* the daemon's file list of the torrent: <<[name, length]>>
    initialized,  \* CachedFileTree.initialized
    dirs,         \* arena of directory nodes, dirs[1] is the root
    files,        \* leaf nodes, in torrent order
    data,         \* rows handed to the table (useFileTree query result)
    renames,      \* rename requests in flight: [path, name]
    wantedReqs,   \* files-wanted / files-unwanted requests in flight
    renamesDone,  \* number of rename requests issued so far
    lastEvent,    \* history: the last event handled
    treeSelected, \* CachedFileTree's selection: an ordered set of paths
    selected,     \* FileTreeTable's selected state
    priorityReqs, \* priority requests in flight
    selectedTorrents, \* ActionController.selectedTorrents
    torrents,     \* ActionController.torrents
    sent,         \* number of requests the client has received
    lastCall,     \* the last request the client has received
    lastRun       \* history: the method of the last run call

treeVars == <<torrent, initialized, dirs, files, data, renames, wantedReqs,
              renamesDone>>

selVars == <<treeSelected, selected, priorityReqs>>

acVars == <<selectedTorrents, torrents, sent, lastCall, lastRun>>

vars == <<treeVars, lastEvent, selVars, acVars>>

----------------------------------------------------------------------------
(* Inputs *)

MaxRenames == 1
MaxInFlight == 1

Undefined == "undefined"
Unset == "unset"

\* what a snapshot reports for a file besides wanted
Progress ==
    { [full |-> FALSE, priority |-> "normal"],
      [full |-> TRUE, priority |-> "high"] }

NewNames == {"b"}

UnknownPath == <<"zz">>

F(path, size) == [name |-> path, length |-> size]

Torrents ==
    { << F(<<"a", "b">>, 1), F(<<"a", "c", "d">>, 2) >>,
      << F(<<>>, 1) >>,
      << F(<<"a">>, 1), F(<<"a", "b">>, 2) >>,
      << F(<<"a", "b">>, 1), F(<<"a">>, 2) >> }

----------------------------------------------------------------------------
(* CachedFileTree: nodes *)

Last(s) == s[Len(s)]
Front(s) == SubSeq(s, 1, Len(s) - 1)

IsPrefix(p, q) == Len(p) <= Len(q) /\ SubSeq(q, 1, Len(p)) = p

RootId == 1

DirKey(id) == [isDir |-> TRUE, id |-> id]
FileKey(id) == [isDir |-> FALSE, id |-> id]
NoEntry == [isDir |-> FALSE, id |-> 0]

EmptyDirs ==
    << [fullPath |-> <<>>, level |-> -1, children |-> <<>>,
        wantedUpdating |-> FALSE] >>

KeyPath(ds, fs, k) == IF k.isDir THEN ds[k.id].fullPath ELSE fs[k.id].fullPath

\* the child of directory cur whose last path segment is seg, or NoEntry
ChildNamed(ds, fs, cur, seg) ==
    LET ch == ds[cur].children
        hits == {i \in 1..Len(ch) : Last(KeyPath(ds, fs, ch[i])) = seg}
    IN IF hits = {} THEN NoEntry
       ELSE ch[CHOOSE i \in hits : \A j \in hits : i <= j]

RECURSIVE Walk(_, _, _, _, _)
Walk(ds, fs, cur, path, k) ==
    IF k > Len(path) THEN DirKey(cur)
    ELSE LET c == ChildNamed(ds, fs, cur, path[k])
         IN IF c = NoEntry THEN NoEntry
            ELSE IF ~c.isDir
                 THEN (IF k = Len(path) THEN c ELSE NoEntry)
                 ELSE Walk(ds, fs, c.id, path, k + 1)

findEntry(ds, fs, path) ==
    IF path = <<>> THEN NoEntry ELSE Walk(ds, fs, RootId, path, 1)

IsLeaf(e) == e # NoEntry /\ ~e.isDir

----------------------------------------------------------------------------
(* CachedFileTree.parse *)

ParseError == [ok |-> FALSE, dirs |-> EmptyDirs, files |-> <<>>]

AddChild(ds, cur, key) == [ds EXCEPT ![cur].children = Append(@, key)]

NewLeaf(rec, cur, idx) ==
    [fullPath |-> rec.name, level |-> Len(rec.name) - 1, parent |-> cur,
     index |-> idx, size |-> rec.length,
     bytesCompleted |-> rec.bytesCompleted, wanted |-> rec.wanted,
     priority |-> rec.priority, wantedUpdating |-> FALSE]

NewDir(path, k) ==
    [fullPath |-> SubSeq(path, 1, k), level |-> k - 1, children |-> <<>>,
     wantedUpdating |-> FALSE]

RECURSIVE InsertFile(_, _, _, _, _)
InsertFile(ds, fs, cur, rec, k) ==
    LET path == rec.name
        c == ChildNamed(ds, fs, cur, path[k])
    IN IF k = Len(path)
       THEN IF c # NoEntry /\ c.isDir
            THEN ParseError
            ELSE [ok |-> TRUE,
                  dirs |-> AddChild(ds, cur, FileKey(Len(fs) + 1)),
                  files |-> Append(fs, NewLeaf(rec, cur, Len(fs)))]
       ELSE IF c # NoEntry /\ ~c.isDir
            THEN ParseError
            ELSE IF c # NoEntry
                 THEN InsertFile(ds, fs, c.id, rec, k + 1)
                 ELSE InsertFile(AddChild(Append(ds, NewDir(path, k)), cur,
                                          DirKey(Len(ds) + 1)),
                                 fs, Len(ds) + 1, rec, k + 1)

\* a parse that skips the records it cannot insert
RECURSIVE ParseFromLenient(_, _, _)
ParseFromLenient(snap, i, st) ==
    IF i > Len(snap) THEN st
    ELSE IF snap[i].name = <<>> THEN ParseFromLenient(snap, i + 1, st)
         ELSE LET r == InsertFile(st.dirs, st.files, RootId, snap[i], 1)
              IN ParseFromLenient(snap, i + 1, IF r.ok THEN r ELSE st)

RECURSIVE ParseFrom(_, _, _)
ParseFrom(snap, i, st) ==
    IF ~st.ok \/ i > Len(snap) THEN st
    ELSE IF snap[i].name = <<>> THEN ParseError
         ELSE ParseFrom(snap, i + 1,
                        InsertFile(st.dirs, st.files, RootId, snap[i], 1))

parse(snap) ==
    ParseFrom(snap, 1, [ok |-> TRUE, dirs |-> EmptyDirs, files |-> <<>>])

----------------------------------------------------------------------------
(* Derived directory state: the fold over the children *)

BoolStr(b) == IF b THEN "true" ELSE "false"

Consensus(acc, v) ==
    IF acc = Unset THEN v
    ELSE IF acc = Undefined THEN Undefined
         ELSE IF acc = v THEN acc ELSE Undefined

ZeroAgg == [size |-> 0, done |-> 0, want |-> Unset, priority |-> Unset]

Combine(acc, e) ==
    [size |-> acc.size + e.size, done |-> acc.done + e.done,
     want |-> Consensus(acc.want, e.want),
     priority |-> Consensus(acc.priority, e.priority)]

LeafAgg(f) ==
    [size |-> f.size, done |-> f.bytesCompleted, want |-> BoolStr(f.wanted),
     priority |-> f.priority]

RECURSIVE DirAgg(_, _, _)
RECURSIVE FoldChildren(_, _, _, _, _)
FoldChildren(ds, fs, ch, k, acc) ==
    IF k > Len(ch) THEN acc
    ELSE FoldChildren(ds, fs, ch, k + 1,
             Combine(acc, IF ch[k].isDir THEN DirAgg(ds, fs, ch[k].id)
                          ELSE LeafAgg(fs[ch[k].id])))

DirAgg(ds, fs, d) == FoldChildren(ds, fs, ds[d].children, 1, ZeroAgg)

----------------------------------------------------------------------------
(* The rows read by the display layer *)

FileRow(f) ==
    [fullPath |-> f.fullPath, level |-> f.level, isDir |-> FALSE,
     size |-> f.size, done |-> f.bytesCompleted, want |-> BoolStr(f.wanted),
     priority |-> f.priority, wantedUpdating |-> f.wantedUpdating]

DirRow(ds, fs, d) ==
    LET agg == DirAgg(ds, fs, d)
    IN [fullPath |-> ds[d].fullPath, level |-> ds[d].level, isDir |-> TRUE,
        size |-> agg.size, done |-> agg.done, want |-> agg.want,
        priority |-> agg.priority, wantedUpdating |-> ds[d].wantedUpdating]

RECURSIVE Rows(_, _, _, _)
Rows(ds, fs, ch, k) ==
    IF k > Len(ch) THEN <<>>
    ELSE (IF ch[k].isDir
          THEN <<DirRow(ds, fs, ch[k].id)>>
               \o Rows(ds, fs, ds[ch[k].id].children, 1)
          ELSE <<FileRow(fs[ch[k].id])>>)
         \o Rows(ds, fs, ch, k + 1)

View(ds, fs) == Rows(ds, fs, ds[RootId].children, 1)

----------------------------------------------------------------------------
(* CachedFileTree: setWanted, getChildFilesIndexes, update, updatePath *)

RECURSIVE Leaves(_, _)
Leaves(ds, k) ==
    IF ~k.isDir THEN {k.id}
    ELSE UNION {Leaves(ds, ds[k.id].children[i]) :
                    i \in 1..Len(ds[k.id].children)}

RECURSIVE SubDirs(_, _)
SubDirs(ds, k) ==
    IF ~k.isDir THEN {}
    ELSE {k.id} \cup UNION {SubDirs(ds, ds[k.id].children[i]) :
                                i \in 1..Len(ds[k.id].children)}

setWanted(ds, fs, path, state, updating) ==
    LET e == findEntry(ds, fs, path)
    IN IF e = NoEntry THEN [dirs |-> ds, files |-> fs]
       ELSE [dirs |-> [i \in 1..Len(ds) |->
                        IF updating /\ i \in SubDirs(ds, e)
                        THEN [ds[i] EXCEPT !.wantedUpdating = TRUE]
                        ELSE ds[i]],
             files |-> [i \in 1..Len(fs) |->
                        IF i \in Leaves(ds, e)
                        THEN [fs[i] EXCEPT !.wanted = state,
                                           !.wantedUpdating = @ \/ updating]
                        ELSE fs[i]]]

getChildFilesIndexes(ds, fs, path) ==
    LET e == findEntry(ds, fs, path)
    IN IF e = NoEntry THEN {} ELSE {fs[i].index : i \in Leaves(ds, e)}

MergeRecordAdd(f, rec) ==
    [f EXCEPT !.bytesCompleted = @ + rec.bytesCompleted, !.wanted = rec.wanted,
              !.priority = rec.priority, !.wantedUpdating = FALSE]

MergeRecord(f, rec) ==
    [f EXCEPT !.bytesCompleted = rec.bytesCompleted, !.wanted = rec.wanted,
              !.priority = rec.priority, !.wantedUpdating = FALSE]

RECURSIVE MergeFromStopAtUnknown(_, _, _, _)
MergeFromStopAtUnknown(ds, fs, snap, i) ==
    IF i > Len(snap) THEN fs
    ELSE LET e == findEntry(ds, fs, snap[i].name)
         IN IF IsLeaf(e)
            THEN MergeFromStopAtUnknown(ds,
                     [fs EXCEPT ![e.id] = MergeRecord(@, snap[i])], snap, i + 1)
            ELSE fs

RECURSIVE MergeFrom(_, _, _, _)
MergeFrom(ds, fs, snap, i) ==
    IF i > Len(snap) THEN fs
    ELSE LET e == findEntry(ds, fs, snap[i].name)
         IN MergeFrom(ds,
                      IF IsLeaf(e)
                      THEN [fs EXCEPT ![e.id] = MergeRecord(@, snap[i])]
                      ELSE fs,
                      snap, i + 1)

update(ds, fs, snap) ==
    LET merged == MergeFrom(ds, fs, snap, 1)
    IN [dirs |-> [i \in 1..Len(ds) |->
                    [ds[i] EXCEPT !.wantedUpdating =
                        @ /\ \E l \in Leaves(ds, DirKey(i)) :
                                 merged[l].wantedUpdating]],
        files |-> merged]

Rebase(p, old, new) == new \o SubSeq(p, Len(old) + 1, Len(p))

updatePathReindex(ds, fs, path, name) ==
    LET e == findEntry(ds, fs, path)
        newPath == Append(Front(path), name)
    IN IF e = NoEntry \/ (newPath # path /\ findEntry(ds, fs, newPath) # NoEntry)
       THEN [ok |-> FALSE, dirs |-> ds, files |-> fs]
       ELSE [ok |-> TRUE,
             dirs |-> [i \in 1..Len(ds) |->
                        IF i \in SubDirs(ds, e)
                        THEN [ds[i] EXCEPT !.fullPath = Rebase(@, path, newPath)]
                        ELSE ds[i]],
             files |-> [i \in 1..Len(fs) |->
                        IF i \in Leaves(ds, e)
                        THEN [fs[i] EXCEPT !.fullPath = Rebase(@, path, newPath),
                                           !.index = @ + 1]
                        ELSE fs[i]]]

updatePath(ds, fs, path, name) ==
    LET e == findEntry(ds, fs, path)
        newPath == Append(Front(path), name)
    IN IF e = NoEntry \/ (newPath # path /\ findEntry(ds, fs, newPath) # NoEntry)
       THEN [ok |-> FALSE, dirs |-> ds, files |-> fs]
       ELSE [ok |-> TRUE,
             dirs |-> [i \in 1..Len(ds) |->
                        IF i \in SubDirs(ds, e)
                        THEN [ds[i] EXCEPT !.fullPath = Rebase(@, path, newPath)]
                        ELSE ds[i]],
             files |-> [i \in 1..Len(fs) |->
                        IF i \in Leaves(ds, e)
                        THEN [fs[i] EXCEPT !.fullPath = Rebase(@, path, newPath)]
                        ELSE fs[i]]]

----------------------------------------------------------------------------
(* Events delivered to the file tree pane *)

N == Len(torrent)

\* the file names a snapshot can carry: the tree's (daemon and tree agree),
\* the torrent's original ones (fetched before a rename), or a name the
\* tree does not know for one of the files
TickNames ==
    IF ~initialized
    THEN {[i \in 1..N |-> torrent[i].name]}
    ELSE {[i \in 1..N |-> files[i].fullPath]}
         \cup {[i \in 1..N |-> torrent[i].name]}
         \cup {[i \in 1..N |-> IF i = k THEN UnknownPath
                               ELSE files[i].fullPath] : k \in 1..N}

TickStats == [1..N -> [p : Progress, wanted : BOOLEAN]]

Snapshot(names, stats) ==
    [i \in 1..N |->
        [name |-> names[i], length |-> torrent[i].length,
         bytesCompleted |-> IF stats[i].p.full THEN torrent[i].length ELSE 0,
         wanted |-> stats[i].wanted, priority |-> stats[i].p.priority]]

Snapshots == {Snapshot(n, st) : n \in TickNames, st \in TickStats}

Event(op) == [op |-> op, applied |-> <<>>, dropped |-> <<>>]

InFlight ==
    Cardinality(renames) + Cardinality(wantedReqs) + Cardinality(priorityReqs)

NoCall == [call |-> "none", method |-> "", ids |-> <<>>, args |-> <<>>]

Init ==
    /\ torrent \in Torrents
    /\ initialized = FALSE
    /\ dirs = EmptyDirs
    /\ files = <<>>
    /\ data = <<>>
    /\ renames = {}
    /\ wantedReqs = {}
    /\ renamesDone = 0
    /\ lastEvent = Event("init")
    /\ treeSelected = <<>>
    /\ selected = <<>>
    /\ priorityReqs = {}
    /\ selectedTorrents = <<>>
    /\ torrents = <<>>
    /\ sent = 0
    /\ lastCall = NoCall
    /\ lastRun = "none"

\* parse threw inside the effect, which catches nothing: the pane is gone
Crashed == lastEvent.op = "MalformedPathError"

Known(rec) == IsLeaf(findEntry(dirs, files, rec.name))

Unknown(rec) == ~Known(rec)

RECURSIVE NamesOf(_)
NamesOf(recs) ==
    IF recs = <<>> THEN <<>> ELSE <<recs[1].name>> \o NamesOf(Tail(recs))

\* history of an update: the records whose path named a leaf, and the
\* paths of the others
UpdateEvent(snap) ==
    [op |-> IF \E i \in 1..Len(snap) : Unknown(snap[i])
            THEN "updateDropped" ELSE "update",
     applied |-> SelectSeq(snap, Known),
     dropped |-> NamesOf(SelectSeq(snap, Unknown))]

TorrentEffectNoRefetch(snap) ==
    /\ ~Crashed
    /\ IF initialized
       THEN LET r == update(dirs, files, snap)
            IN /\ dirs' = r.dirs
               /\ files' = r.files
               /\ lastEvent' = UpdateEvent(snap)
               /\ UNCHANGED <<initialized, data>>
       ELSE LET r == parse(snap)
            IN IF r.ok
               THEN /\ initialized' = TRUE
                    /\ dirs' = r.dirs
                    /\ files' = r.files
                    /\ data' = View(r.dirs, r.files)
                    /\ lastEvent' = Event("parse")
               ELSE /\ lastEvent' = Event("MalformedPathError")
                    /\ UNCHANGED <<initialized, dirs, files, data>>
    /\ UNCHANGED <<torrent, renames, wantedReqs, renamesDone>>

TorrentEffectReparse(snap) ==
    /\ ~Crashed
    /\ LET r == parse(snap)
       IN IF r.ok
          THEN /\ initialized' = TRUE
               /\ dirs' = r.dirs
               /\ files' = r.files
               /\ data' = View(r.dirs, r.files)
               /\ lastEvent' = IF initialized THEN UpdateEvent(snap)
                               ELSE Event("parse")
          ELSE /\ lastEvent' = Event("MalformedPathError")
               /\ UNCHANGED <<initialized, dirs, files, data>>
    /\ UNCHANGED <<torrent, renames, wantedReqs, renamesDone>>

TorrentEffectParseAgain(snap) ==
    /\ ~Crashed
    /\ LET r == parse(snap)
       IN IF r.ok
          THEN /\ initialized' = TRUE
               /\ dirs' = r.dirs
               /\ files' = r.files
               /\ data' = View(r.dirs, r.files)
               /\ lastEvent' = Event("parse")
          ELSE /\ lastEvent' = Event("MalformedPathError")
               /\ UNCHANGED <<initialized, dirs, files, data>>
    /\ UNCHANGED <<torrent, renames, wantedReqs, renamesDone>>

\* FileTreePane's effect on a new torrent snapshot
TorrentEffect(snap) ==
    /\ ~Crashed
    /\ IF initialized
       THEN LET r == update(dirs, files, snap)
            IN /\ dirs' = r.dirs
               /\ files' = r.files
               /\ data' = View(r.dirs, r.files)
               /\ lastEvent' = UpdateEvent(snap)
               /\ UNCHANGED initialized
       ELSE LET r == parse(snap)
            IN IF r.ok
               THEN /\ initialized' = TRUE
                    /\ dirs' = r.dirs
                    /\ files' = r.files
                    /\ data' = View(r.dirs, r.files)
                    /\ lastEvent' = Event("parse")
               ELSE /\ lastEvent' = Event("MalformedPathError")
                    /\ UNCHANGED <<initialized, dirs, files, data>>
    /\ UNCHANGED <<torrent, renames, wantedReqs, renamesDone>>

\* the checkbox NameField renders for a row
Checked(row) == row.want = "true" \/ row.want = Undefined

IndeterminateAlways(row) == row.isDir

Indeterminate(row) == row.want = Undefined

getRowIdByName(row) == Last(row.fullPath)

getRowId(row) == row.fullPath

changeHandlerNegated(ds, fs, entry, state, setUpdating) ==
    setWanted(ds, fs, entry.fullPath, ~state, setUpdating)

\* useUnwantedFiles
changeHandler(ds, fs, entry, state, setUpdating) ==
    setWanted(ds, fs, entry.fullPath, state, setUpdating)

onCheckboxChangeNoUpdating(ds, fs, entry, state) ==
    changeHandler(ds, fs, entry, state, FALSE)

\* FileTreePane: useUnwantedFiles(fileTree, true)
onCheckboxChange(ds, fs, entry, state) ==
    changeHandler(ds, fs, entry, state, TRUE)

WantedRequest(state, ids, was) ==
    [field |-> IF state THEN "files-wanted" ELSE "files-unwanted",
     ids |-> ids, was |-> was]

CheckboxOfferedAlways(row) == TRUE

\* NameField renders the checkbox unless the entry is wantedUpdating
CheckboxOffered(row) == ~row.wantedUpdating

\* NameField's checkbox onChange: FileTreePane.updateUnwanted, then the refresh
CheckboxChange(r) ==
    /\ CheckboxOffered(data[r])
    /\ InFlight < MaxInFlight
    /\ LET path == data[r].fullPath
           state == ~Checked(data[r])
           w == onCheckboxChange(dirs, files, data[r], state)
           ids == getChildFilesIndexes(w.dirs, w.files, path)
           was == {files[i].index : i \in {j \in 1..Len(files) :
                        files[j].index \in ids /\ files[j].wanted}}
       IN /\ dirs' = w.dirs
          /\ files' = w.files
          /\ wantedReqs' = wantedReqs \cup {WantedRequest(state, ids, was)}
          /\ data' = View(w.dirs, w.files)
    /\ lastEvent' = Event("toggle")
    /\ UNCHANGED <<torrent, initialized, renames, renamesDone>>

\* the files-wanted / files-unwanted mutation settles: no callback is registered
WantedSuccess(req) ==
    /\ wantedReqs' = wantedReqs \ {req}
    /\ lastEvent' = Event("wantedConfirmed")
    /\ UNCHANGED <<torrent, initialized, dirs, files, data, renames,
                   renamesDone>>

WantedError(req) ==
    /\ wantedReqs' = wantedReqs \ {req}
    /\ lastEvent' = Event("wantedRejected")
    /\ UNCHANGED <<torrent, initialized, dirs, files, data, renames,
                   renamesDone>>

\* NameField.updatePath: the rename request is sent
RenameStart(r, name) ==
    /\ InFlight < MaxInFlight
    /\ renamesDone < MaxRenames
    /\ renames' = renames \cup {[path |-> data[r].fullPath, name |-> name]}
    /\ renamesDone' = renamesDone + 1
    /\ lastEvent' = Event("renameRequest")
    /\ UNCHANGED <<torrent, initialized, dirs, files, data, wantedReqs>>

RenameSuccessNoRefresh(req) ==
    /\ LET u == updatePath(dirs, files, req.path, req.name)
       IN /\ dirs' = u.dirs
          /\ files' = u.files
          /\ lastEvent' = Event(IF u.ok THEN "renamed" ELSE "RenameFailed")
    /\ renames' = renames \ {req}
    /\ UNCHANGED <<torrent, initialized, data, wantedReqs, renamesDone>>

\* onSuccess of the rename mutation
RenameSuccess(req) ==
    /\ LET u == updatePath(dirs, files, req.path, req.name)
       IN /\ dirs' = u.dirs
          /\ files' = u.files
          /\ data' = View(u.dirs, u.files)
          /\ lastEvent' = Event(IF u.ok THEN "renamed" ELSE "RenameFailed")
    /\ renames' = renames \ {req}
    /\ UNCHANGED <<torrent, initialized, wantedReqs, renamesDone>>

RenameErrorApplied(req) ==
    /\ LET u == updatePath(dirs, files, req.path, req.name)
       IN /\ dirs' = u.dirs
          /\ files' = u.files
          /\ data' = View(u.dirs, u.files)
    /\ renames' = renames \ {req}
    /\ lastEvent' = Event("Failed to update file path")
    /\ UNCHANGED <<torrent, initialized, wantedReqs, renamesDone>>

\* onError of the rename mutation
RenameError(req) ==
    /\ renames' = renames \ {req}
    /\ lastEvent' = Event("Failed to update file path")
    /\ UNCHANGED <<torrent, initialized, dirs, files, data, wantedReqs,
                   renamesDone>>

\* the file tree pane: ticks, wanted toggles and renames
Next ==
    \/ (\E snap \in Snapshots : TorrentEffect(snap))
          /\ UNCHANGED <<selVars, acVars>>
    \/ (\E r \in 1..Len(data) : CheckboxChange(r))
          /\ UNCHANGED <<selVars, acVars>>
    \/ (\E req \in wantedReqs : WantedSuccess(req))
          /\ UNCHANGED <<selVars, acVars>>
    \/ (\E req \in wantedReqs : WantedError(req))
          /\ UNCHANGED <<selVars, acVars>>
    \/ (\E r \in 1..Len(data), name \in NewNames : RenameStart(r, name))
          /\ UNCHANGED <<selVars, acVars>>
    \/ (\E req \in renames : RenameSuccess(req))
          /\ UNCHANGED <<selVars, acVars>>
    \/ (\E req \in renames : RenameError(req))
          /\ UNCHANGED <<selVars, acVars>>

Spec == Init /\ [][Next]_vars

----------------------------------------------------------------------------
(* Selection and the context menu of the file tree table *)

MaxSelected == 2

Has(sq, x) == \E k \in 1..Len(sq) : sq[k] = x

\* Set.add of each member of ids, in order, into the ordered set acc
RECURSIVE AddAll(_, _)
AddAll(acc, ids) ==
    IF ids = <<>> THEN acc
    ELSE AddAll(IF Has(acc, Head(ids)) THEN acc ELSE Append(acc, Head(ids)),
                Tail(ids))

selectActionAppend(sel, action) ==
    IF action.verb = "set" THEN AddAll(<<>>, action.ids)
    ELSE sel \o action.ids

\* CachedFileTree.selectAction
selectAction(sel, action) ==
    IF action.verb = "set" THEN AddAll(<<>>, action.ids)
    ELSE AddAll(sel, action.ids)

\* CachedFileTree.getSelected
getSelected(sel) == sel

\* the ids the table hands to the reducer: a clicked row, or a range of rows
RowIdLists ==
    {<<getRowId(data[r])>> : r \in 1..Len(data)}
       \cup {<<getRowId(data[r]), getRowId(data[r + 1])>> :
                 r \in 1..(Len(data) - 1)}

SelectActions == [verb : {"set", "add"}, ids : RowIdLists]

selectedReducerNoSync(action) ==
    /\ Len(selectAction(treeSelected, action)) <= MaxSelected
    /\ treeSelected' = selectAction(treeSelected, action)
    /\ selected' = selected
    /\ lastEvent' = Event("select")
    /\ UNCHANGED <<treeVars, priorityReqs, acVars>>

\* FileTreeTable.selectedReducer
selectedReducer(action) ==
    /\ Len(selectAction(treeSelected, action)) <= MaxSelected
    /\ treeSelected' = selectAction(treeSelected, action)
    /\ selected' = getSelected(treeSelected')
    /\ lastEvent' = Event("select")
    /\ UNCHANGED <<treeVars, priorityReqs, acVars>>

\* the array getChildFilesIndexes returns, in index order
RECURSIVE Sorted(_)
Sorted(S) ==
    IF S = {} THEN <<>>
    ELSE LET m == CHOOSE x \in S : \A y \in S : x <= y
         IN <<m>> \o Sorted(S \ {m})

RECURSIVE fileIdsConcat(_, _, _)
fileIdsConcat(ds, fs, sel) ==
    IF sel = <<>> THEN <<>>
    ELSE fileIdsConcat(ds, fs, Front(sel))
            \o Sorted(getChildFilesIndexes(ds, fs, Last(sel)))

\* FiletreeContextMenu.setPriority: the reduce of the selected paths into a Set
RECURSIVE fileIds(_, _, _)
fileIds(ds, fs, sel) ==
    IF sel = <<>> THEN <<>>
    ELSE AddAll(fileIds(ds, fs, Front(sel)),
                Sorted(getChildFilesIndexes(ds, fs, Last(sel))))

PriorityFields == {"priority-high", "priority-normal", "priority-low"}

\* a priority item of the context menu, offered while something is selected
SetPriority(field) ==
    /\ selected # <<>>
    /\ InFlight < MaxInFlight
    /\ priorityReqs' = priorityReqs
          \cup {[field |-> field, ids |-> fileIds(dirs, files, selected)]}
    /\ lastEvent' = Event("setPriority")
    /\ UNCHANGED <<treeVars, treeSelected, selected, acVars>>

\* onSuccess of the priority mutation
PrioritySuccess(req) ==
    /\ priorityReqs' = priorityReqs \ {req}
    /\ lastEvent' = Event("Priority updated")
    /\ UNCHANGED <<treeVars, treeSelected, selected, acVars>>

\* the priority mutation is rejected: no callback is registered
PriorityError(req) ==
    /\ priorityReqs' = priorityReqs \ {req}
    /\ lastEvent' = Event("priorityRejected")
    /\ UNCHANGED <<treeVars, treeSelected, selected, acVars>>

onOpenUnchecked(ds, fs, sel) == "open"

\* FiletreeContextMenu.onOpen: the entry of the selected path is opened, if any
onOpen(ds, fs, sel) ==
    IF findEntry(ds, fs, sel[1]) = NoEntry THEN "openNone" ELSE "open"

\* the Open item of the context menu, offered while one path is selected
OnOpen ==
    /\ Len(selected) = 1
    /\ lastEvent' = Event(onOpen(dirs, files, selected))
    /\ UNCHANGED <<treeVars, selVars, acVars>>

\* the snapshots of a daemon that reports no progress
SelSnapshots ==
    {Snapshot([i \in 1..N |-> IF initialized THEN files[i].fullPath
                              ELSE torrent[i].name],
              [i \in 1..N |-> [p |-> [full |-> FALSE, priority |-> "normal"],
                               wanted |-> TRUE]])}

\* the file tree table: selection and context menu, over ticks and renames
SelNext ==
    \/ (\E snap \in SelSnapshots : TorrentEffect(snap))
          /\ UNCHANGED <<selVars, acVars>>
    \/ (\E r \in 1..Len(data), name \in NewNames : RenameStart(r, name))
          /\ UNCHANGED <<selVars, acVars>>
    \/ (\E req \in renames : RenameSuccess(req))
          /\ UNCHANGED <<selVars, acVars>>
    \/ (\E req \in renames : RenameError(req))
          /\ UNCHANGED <<selVars, acVars>>
    \/ \E action \in SelectActions : selectedReducer(action)
    \/ \E field \in PriorityFields : SetPriority(field)
    \/ \E req \in priorityReqs : PrioritySuccess(req)
    \/ \E req \in priorityReqs : PriorityError(req)
    \/ OnOpen

SelSpec == Init /\ [][SelNext]_vars

----------------------------------------------------------------------------
(* ActionController: the per-torrent action dispatch *)

MaxRuns == 2

TorrentIds == {1, 2}

ActionMethods ==
    {"resume", "pause", "moveQueueUp", "moveQueueDown", "changeDirectory",
     "verify", "reannounce"}

\* a name that is not in the dispatch table
UnregisteredMethods == {"remove"}

RpcMethod(name) ==
    CASE name = "resume" -> "torrent-start"
      [] name = "pause" -> "torrent-stop"
      [] name = "moveQueueUp" -> "queue-move-up"
      [] name = "moveQueueDown" -> "queue-move-down"
      [] name = "verify" -> "torrent-verify"
      [] name = "reannounce" -> "torrent-reannounce"

torrentIdsOfAll(sel) == [i \in 1..Len(torrents) |-> torrents[i].id]

\* Array.from(ac.selectedTorrents): the members in insertion order
torrentIds(sel) == sel

\* mapSimpleAction(name, method, shortcut).method
mapSimpleAction(name, sel) ==
    [call |-> "torrentAction", method |-> RpcMethod(name),
     ids |-> torrentIds(sel), args |-> <<>>]

\* Actions: the request each registered action sends to the client
Actions(name, sel, args) ==
    IF name = "changeDirectory"
    THEN [call |-> "torrentMove", method |-> "", ids |-> torrentIds(sel),
          args |-> args]
    ELSE mapSimpleAction(name, sel)

\* the keys the constructor puts into methodMap
methodMap == ActionMethods

RunInputs ==
    {[method |-> m, args |-> <<>>] :
        m \in (ActionMethods \ {"changeDirectory"}) \cup UnregisteredMethods}
       \cup {[method |-> "changeDirectory", args |-> <<"/d", mv>>] :
                mv \in BOOLEAN}

\* ActionController.run
run(in) ==
    /\ sent < MaxRuns
    /\ lastRun' = in.method
    /\ IF in.method \in methodMap
       THEN /\ sent' = sent + 1
            /\ lastCall' = Actions(in.method, selectedTorrents, in.args)
       ELSE UNCHANGED <<sent, lastCall>>
    /\ UNCHANGED <<selectedTorrents, torrents>>
    /\ UNCHANGED <<treeVars, lastEvent, selVars>>

\* the selections a caller hands over: sets of ids, as ordered sets
Selections == {<<>>, <<1>>, <<2>>, <<1, 2>>, <<2, 1>>}

\* ActionController.setSelected
setSelected(sel) ==
    /\ selectedTorrents' = sel
    /\ UNCHANGED <<torrents, sent, lastCall, lastRun>>
    /\ UNCHANGED <<treeVars, lastEvent, selVars>>

TorrentLists == {<<>>, <<[id |-> 1], [id |-> 2]>>}

\* ActionController.setTorrents
setTorrents(list) ==
    /\ torrents' = list
    /\ UNCHANGED <<selectedTorrents, sent, lastCall, lastRun>>
    /\ UNCHANGED <<treeVars, lastEvent, selVars>>

ActionNext ==
    \/ \E in \in RunInputs : run(in)
    \/ \E sel \in Selections : setSelected(sel)
    \/ \E list \in TorrentLists : setTorrents(list)

ActionSpec == Init /\ [][ActionNext]_vars

----------------------------------------------------------------------------
(* Properties *)

\* the leaves below a path, found by their own fullPath
LeavesBelow(fs, p) ==
    {i \in 1..Len(fs) : IsPrefix(p, fs[i].fullPath) /\ fs[i].fullPath # p}

\* the leaves a path names: the leaf itself or the leaves below a directory
LeavesAt(fs, p) == {i \in 1..Len(fs) : IsPrefix(p, fs[i].fullPath)}

RECURSIVE SumSize(_, _)
SumSize(fs, S) ==
    IF S = {} THEN 0
    ELSE LET i == CHOOSE j \in S : TRUE
         IN fs[i].size + SumSize(fs, S \ {i})

RECURSIVE SumDone(_, _)
SumDone(fs, S) ==
    IF S = {} THEN 0
    ELSE LET i == CHOOSE j \in S : TRUE
         IN fs[i].bytesCompleted + SumDone(fs, S \ {i})

DirRowsOf(rows) == {r \in 1..Len(rows) : rows[r].isDir}

\* C1: in every reachable state every directory of the tree has a row, and
\* each directory row's size and bytesCompleted are the sums over the leaves
\* currently below it, both as read from the tree and as shown in the table.
C1_DirSums ==
    /\ \A d \in 2..Len(dirs) :
          /\ \E r \in DirRowsOf(data) : data[r].fullPath = dirs[d].fullPath
          /\ DirAgg(dirs, files, d).size
                = SumSize(files, LeavesBelow(files, dirs[d].fullPath))
          /\ DirAgg(dirs, files, d).done
                = SumDone(files, LeavesBelow(files, dirs[d].fullPath))
    /\ \A r \in DirRowsOf(data) :
          /\ data[r].size = SumSize(files, LeavesBelow(files, data[r].fullPath))
          /\ data[r].done = SumDone(files, LeavesBelow(files, data[r].fullPath))

\* a renamed directory whose leaves are partly complete, read after an update
C1_Witness ==
    /\ lastEvent.op = "update"
    /\ \E r \in DirRowsOf(data) :
          /\ data[r].fullPath = <<"b">>
          /\ data[r].size = 3
          /\ data[r].done = 2

\* C2: a directory row's want is true exactly when every leaf below it is
\* wanted, false exactly when none is, undefined exactly when they disagree;
\* its priority is the leaves' common priority or undefined when they differ;
\* the checkbox is indeterminate exactly in the undefined case.
C2_Consensus ==
    \A r \in DirRowsOf(data) :
        LET L == LeavesBelow(files, data[r].fullPath)
            allWanted == \A i \in L : files[i].wanted
            noneWanted == \A i \in L : ~files[i].wanted
            samePriority == \A i, j \in L : files[i].priority = files[j].priority
        IN /\ L # {}
           /\ (data[r].want = "true") <=> allWanted
           /\ (data[r].want = "false") <=> noneWanted
           /\ (data[r].want = Undefined) <=> (~allWanted /\ ~noneWanted)
           /\ Indeterminate(data[r]) <=> (~allWanted /\ ~noneWanted)
           /\ Checked(data[r]) <=> ~noneWanted
           /\ samePriority =>
                 \A i \in L : data[r].priority = files[i].priority
           /\ ~samePriority => data[r].priority = Undefined

\* a directory with mixed wanted and a common priority, beside one that agrees
C2_Witness ==
    /\ \E r \in DirRowsOf(data) :
          /\ data[r].want = Undefined
          /\ data[r].priority = "high"
    /\ \E r \in DirRowsOf(data) : data[r].want = "false"

\* C3: a checkbox change on a row sets wanted to the new state on every leaf
\* at or below the row's path and leaves the wanted flag of every other leaf
\* alone; afterwards a directory row reads want = state.
C3_Cascade ==
    [][\A r \in 1..Len(data) :
          CheckboxChange(r) =>
             LET p == data[r].fullPath
                 state == ~Checked(data[r])
             IN /\ \A i \in 1..Len(files) :
                      files'[i].wanted =
                         IF i \in LeavesAt(files, p) THEN state
                         ELSE files[i].wanted
                /\ \E q \in 1..Len(data') :
                      /\ data'[q].fullPath = p
                      /\ data'[q].want = BoolStr(state)]_vars

\* a directory toggled to wanted while a leaf outside it stays unwanted
C3_Witness ==
    /\ lastEvent.op = "toggle"
    /\ \E req \in wantedReqs : req.field = "files-wanted" /\ req.ids = {1}
    /\ dirs[3].wantedUpdating
    /\ files[2].wanted
    /\ ~files[1].wanted

NewPath(req) == Append(Front(req.path), req.name)

FullPaths(ds, fs) ==
    <<[d \in 1..Len(ds) |-> ds[d].fullPath],
      [i \in 1..Len(fs) |-> fs[i].fullPath]>>

\* C4: a rename whose request fails shows the failure notification and leaves
\* the tree and the rows as they were; a rename that is applied either moves
\* the node and all its descendants under the new prefix, or fails as
\* RenameFailed with the tree unchanged.
C4_RenameAtomic ==
    [][\A req \in renames :
          /\ RenameError(req) =>
                /\ lastEvent'.op = "Failed to update file path"
                /\ <<dirs', files', data'>> = <<dirs, files, data>>
          /\ RenameSuccess(req) =>
                \/ /\ lastEvent'.op = "renamed"
                   /\ \A d \in 1..Len(dirs) :
                         IsPrefix(req.path, dirs[d].fullPath)
                            => IsPrefix(NewPath(req), dirs'[d].fullPath)
                   /\ \A i \in 1..Len(files) :
                         IsPrefix(req.path, files[i].fullPath)
                            => IsPrefix(NewPath(req), files'[i].fullPath)
                \/ /\ lastEvent'.op = "RenameFailed"
                   /\ <<dirs', files', data'>> = <<dirs, files, data>>]_vars

\* the rename request of an initialized tree has failed
C4_Witness ==
    /\ lastEvent.op = "Failed to update file path"
    /\ initialized
    /\ renamesDone = 1
    /\ FullPaths(dirs, files)[2] = [i \in 1..N |-> torrent[i].name]

\* C5: a rename that succeeds puts the node under its new last segment and
\* every descendant under the new prefix; the nodes, their levels, children
\* and leaf values are otherwise the same, every child still extends its
\* parent's path by one segment, nodes outside the subtree keep their path,
\* and the rows show the new paths.
C5_RenameSubtree ==
    [][\A req \in renames :
          (RenameSuccess(req) /\ lastEvent'.op = "renamed") =>
             LET old == req.path
                 new == NewPath(req)
                 moved(p) == IF IsPrefix(old, p) THEN Rebase(p, old, new) ELSE p
             IN /\ findEntry(dirs, files, old) # NoEntry
                /\ findEntry(dirs', files', new) = findEntry(dirs, files, old)
                /\ Len(dirs') = Len(dirs)
                /\ Len(files') = Len(files)
                /\ \A d \in 1..Len(dirs) :
                      dirs'[d] = [dirs[d] EXCEPT !.fullPath = moved(@)]
                /\ \A i \in 1..Len(files) :
                      files'[i] = [files[i] EXCEPT !.fullPath = moved(@)]
                /\ \A d \in 1..Len(dirs) :
                      \A k \in 1..Len(dirs'[d].children) :
                         Front(KeyPath(dirs', files', dirs'[d].children[k]))
                            = dirs'[d].fullPath
                /\ \A i \in 1..Len(files) :
                      \E q \in 1..Len(data') :
                         /\ ~data'[q].isDir
                         /\ data'[q].fullPath = files'[i].fullPath
                         /\ data'[q].level = files[i].level]_vars

\* the directory a has become b and both leaves follow it
C5_Witness ==
    /\ lastEvent.op = "renamed"
    /\ files[1].fullPath = <<"b", "b">>
    /\ files[2].fullPath = <<"b", "c", "d">>
    /\ dirs[3].fullPath = <<"b", "c">>

AllKeys ==
    {DirKey(d) : d \in 1..Len(dirs)} \cup {FileKey(i) : i \in 1..Len(files)}

ParentsOf(k) ==
    {d \in 1..Len(dirs) : \E j \in 1..Len(dirs[d].children) :
                              dirs[d].children[j] = k}

Updates == {"update", "updateDropped"}

NamedBy(recs, p) == {j \in 1..Len(recs) : recs[j].name = p}

C8_RevertOnReject ==
    [][\A req \in wantedReqs :
          WantedError(req) =>
             /\ \A i \in 1..Len(files) :
                   files[i].index \in req.ids =>
                      /\ files'[i].wanted = (files[i].index \in req.was)
                      /\ ~files'[i].wantedUpdating
             /\ \A d \in 1..Len(dirs) : ~dirs'[d].wantedUpdating]_vars

Max(S) == CHOOSE x \in S : \A y \in S : y <= x

InSeq(x, sq) == \E k \in 1..Len(sq) : sq[k] = x

\* what an update does to leaf i, given the records it applied
Merged(f, applied) ==
    LET J == NamedBy(applied, f.fullPath)
    IN IF J = {} THEN f ELSE MergeRecord(f, applied[Max(J)])

\* C9 as stated: whichever of the rename and the update arrives first, the
\* update's record for a file is applied: no record that names a file by the
\* path it had before the rename is dropped, and the leaf keeps its new path.
C9_BothApply ==
    [][(initialized /\ lastEvent'.op \in Updates) =>
          \A i \in 1..Len(files) :
             /\ files'[i].fullPath = files[i].fullPath
             /\ ~InSeq(torrent[i].name, lastEvent'.dropped)
             /\ files'[i] = Merged(files[i], lastEvent'.applied)]_vars

\* C9, amended: events apply in arrival order.  An update changes no path
\* and gives each leaf the values of the last record that carries the leaf's
\* current path, and leaves every other leaf as it was (a record under the
\* old path of a renamed node is dropped); a rename keeps every leaf's
\* values and, when applied, moves the leaves under the new prefix.
C9_ArrivalOrder ==
    [][/\ (initialized /\ lastEvent'.op \in Updates) =>
             \A i \in 1..Len(files) :
                /\ files'[i].fullPath = files[i].fullPath
                /\ files'[i] = Merged(files[i], lastEvent'.applied)
                /\ (InSeq(torrent[i].name, lastEvent'.dropped)
                       /\ NamedBy(lastEvent'.applied, files[i].fullPath) = {})
                      => files'[i] = files[i]
       /\ \A req \in renames :
             RenameSuccess(req) =>
                \A i \in 1..Len(files) :
                   /\ [files'[i] EXCEPT !.fullPath = files[i].fullPath] = files[i]
                   /\ (lastEvent'.op = "renamed"
                          /\ IsPrefix(req.path, files[i].fullPath))
                         => IsPrefix(NewPath(req), files'[i].fullPath)]_vars

\* a snapshot fetched before the directory was renamed arrives after it
C9_Witness ==
    /\ lastEvent.op = "updateDropped"
    /\ lastEvent.dropped = << <<"a", "b">>, <<"a", "c", "d">> >>
    /\ files[1].fullPath = <<"b", "b">>
    /\ files[2].fullPath = <<"b", "c", "d">>

\* C10: an update with a record whose path is not a leaf of the tree is
\* handled as an update, not as an error: no node is added or moved, the path
\* still names no leaf, and every leaf named by another record of the same
\* snapshot has that record's values.
C10_UnknownDropped ==
    [][(initialized /\ lastEvent'.dropped # <<>>) =>
          /\ lastEvent'.op = "updateDropped"
          /\ initialized'
          /\ FullPaths(dirs', files') = FullPaths(dirs, files)
          /\ \A d \in 1..Len(dirs) : dirs'[d].children = dirs[d].children
          /\ \A k \in 1..Len(lastEvent'.dropped) :
                ~IsLeaf(findEntry(dirs', files', lastEvent'.dropped[k]))
          /\ Len(data') = Len(data)
          /\ \A i \in 1..Len(files) :
                \A j \in NamedBy(lastEvent'.applied, files[i].fullPath) :
                   j = Max(NamedBy(lastEvent'.applied, files[i].fullPath))
                      => /\ files'[i].bytesCompleted
                               = lastEvent'.applied[j].bytesCompleted
                         /\ files'[i].wanted = lastEvent'.applied[j].wanted
                         /\ files'[i].priority = lastEvent'.applied[j].priority]_vars

\* the first record was unknown and dropped, the second one was merged
C10_Witness ==
    /\ lastEvent.op = "updateDropped"
    /\ lastEvent.dropped = <<UnknownPath>>
    /\ Len(lastEvent.applied) = 1
    /\ lastEvent.applied[1].name = files[2].fullPath
    /\ files[2].bytesCompleted = 2
    /\ files[1].wantedUpdating

\* C11: the index of a leaf is the position its record had in the file list
\* that was parsed, in every state reached by ticks and renames: the leaf at
\* position i still carries index i - 1 and the size of the i-th file, and
\* getChildFilesIndexes of its current path is that one index.
C11_IndexStable ==
    initialized =>
       /\ Len(files) = N
       /\ \A i \in 1..N :
             /\ files[i].index = i - 1
             /\ files[i].size = torrent[i].length
             /\ getChildFilesIndexes(dirs, files, files[i].fullPath) = {i - 1}

\* the subtree a/c was renamed below; its sibling a/b reads the same index
C11_Witness ==
    /\ lastEvent.op = "renamed"
    /\ files[2].fullPath = <<"a", "c", "b">>
    /\ getChildFilesIndexes(dirs, files, <<"a", "b">>) = {0}
    /\ getChildFilesIndexes(dirs, files, <<"a", "c">>) = {1}

Range(sq) == {sq[k] : k \in 1..Len(sq)}

NoDup(sq) == \A j, k \in 1..Len(sq) : sq[j] = sq[k] => j = k

\* the indexes of the leaves a path names, found by the leaves' own paths
IndexesAt(fs, p) == {fs[i].index : i \in LeavesAt(fs, p)}

ExactIndexes(ds, fs) ==
    /\ \A i \in 1..Len(fs) :
          getChildFilesIndexes(ds, fs, fs[i].fullPath) = {fs[i].index}
    /\ \A d \in 2..Len(ds) :
          getChildFilesIndexes(ds, fs, ds[d].fullPath)
             = {fs[i].index : i \in LeavesBelow(fs, ds[d].fullPath)}

\* C12: after every step getChildFilesIndexes of a leaf's path is the leaf's
\* own index alone and of a directory's path the indexes of all and only the
\* leaves below it; the priority request built from the selected paths
\* carries each index of the union of these sets exactly once.
C12_ExactIndexes ==
    [][/\ ExactIndexes(dirs', files')
       /\ \A field \in PriorityFields :
             SetPriority(field) =>
                \E req \in priorityReqs' :
                   /\ req.field = field
                   /\ NoDup(req.ids)
                   /\ Range(req.ids)
                        = UNION {IndexesAt(files, selected[k]) :
                                     k \in 1..Len(selected)}]_vars

\* a directory and a leaf below it are selected: the leaf's index is sent once
C12_Witness ==
    /\ lastEvent.op = "setPriority"
    /\ selected = << <<"a">>, <<"a", "b">> >>
    /\ \E req \in priorityReqs : req.ids = <<0, 1>>

\* a file list no tree can hold: an empty path, or the path of one file is
\* a directory on the path of another
Malformed(recs) ==
    \/ \E i \in 1..Len(recs) : recs[i].name = <<>>
    \/ \E i, j \in 1..Len(recs) :
          /\ recs[i].name # recs[j].name
          /\ IsPrefix(recs[i].name, recs[j].name)

NoTree == ~initialized /\ dirs = EmptyDirs /\ files = <<>> /\ data = <<>>

\* C13: the parse of a file list ends in MalformedPathError exactly when the
\* list has an empty path or a path that is both a file and a directory, and
\* then the tree holds no node of the list: it is not initialized and has
\* only its empty root; the parse of any other list builds the tree.
C13_ParseAborts ==
    /\ lastEvent.op = "MalformedPathError" => (Malformed(torrent) /\ NoTree)
    /\ Malformed(torrent) =>
          (NoTree /\ lastEvent.op \in {"init", "MalformedPathError"})
    /\ (~Malformed(torrent) /\ lastEvent.op # "init") =>
          (initialized /\ Len(files) = N)

\* the second record names as a file the directory the first record created
C13_Witness ==
    /\ lastEvent.op = "MalformedPathError"
    /\ torrent = << F(<<"a", "b">>, 1), F(<<"a">>, 2) >>
    /\ NoTree

\* C14: in every state of an initialized tree and for every snapshot a tick
\* can deliver, applying the snapshot to the tree that already had it applied
\* changes nothing: nodes, leaf values, pending flags and the rows, with
\* their derived directory values, are those of the first application.
C14_UpdateIdempotent ==
    initialized =>
       \A snap \in Snapshots :
          LET once == update(dirs, files, snap)
              twice == update(once.dirs, once.files, snap)
          IN /\ twice = once
             /\ View(twice.dirs, twice.files) = View(once.dirs, once.files)

\* the tree is what the last tick made it, and that tick changed progress,
\* wanted and priority of a leaf: applying its records again changes nothing
C14_Witness ==
    /\ lastEvent.op = "update"
    /\ Len(lastEvent.applied) = 2
    /\ files[2].bytesCompleted = 2
    /\ ~files[2].wanted
    /\ files[1].priority = "normal"
    /\ update(dirs, files, lastEvent.applied) = [dirs |-> dirs, files |-> files]

\* C15: a selection step with verb set leaves exactly the given ids selected,
\* in their order, whatever was selected before; with verb add it keeps the
\* previous selection in place and appends the given ids not yet in it, so
\* the result is the union without duplicates; the table's selected state is
\* what getSelected returns, and no node or row of the tree changes.
C15_SelectAction ==
    [][\A action \in SelectActions :
          selectedReducer(action) =>
             /\ action.verb = "set" => treeSelected' = action.ids
             /\ action.verb = "add" =>
                   /\ Range(treeSelected')
                         = Range(treeSelected) \cup Range(action.ids)
                   /\ SubSeq(treeSelected', 1, Len(treeSelected))
                         = treeSelected
             /\ NoDup(treeSelected')
             /\ selected' = getSelected(treeSelected')
             /\ <<dirs', files', data'>> = <<dirs, files, data>>]_vars

\* a range that holds the already selected leaf was added to the selection
C15_Witness ==
    /\ lastEvent.op = "select"
    /\ treeSelected = << <<"a", "b">>, <<"a">> >>
    /\ selected = treeSelected
    /\ initialized

NodePaths ==
    {dirs[d].fullPath : d \in 2..Len(dirs)}
       \cup {files[i].fullPath : i \in 1..Len(files)}

\* path arguments: every node's path, every path the file list had when it
\* was parsed, every selected path, a path no tree ever held, the empty path
ProbePaths ==
    NodePaths \cup {torrent[i].name : i \in 1..N} \cup Range(selected)
       \cup {UnknownPath, <<>>}

\* C16: for every path argument, present or absent, findEntry yields a node
\* of the tree or the not-found result, the latter exactly for a path no
\* node has; on an absent path setWanted yields the tree as it was and
\* getChildFilesIndexes no index; on a present path both yield a tree of the
\* same nodes and indexes of its leaves; selectAction yields a selection.
\* The context menu's Open on a selected path that is no longer in the tree
\* opens nothing, and neither it nor a priority request changes the tree.
C16_Total ==
    [][/\ \A p \in ProbePaths :
             LET e == findEntry(dirs, files, p)
                 tree == [dirs |-> dirs, files |-> files]
             IN /\ e \in (AllKeys \ {DirKey(RootId)}) \cup {NoEntry}
                /\ (e = NoEntry) <=> (p \notin NodePaths)
                /\ e # NoEntry => KeyPath(dirs, files, e) = p
                /\ \A st, up \in BOOLEAN :
                      LET w == setWanted(dirs, files, p, st, up)
                      IN /\ e = NoEntry => w = tree
                         /\ FullPaths(w.dirs, w.files) = FullPaths(dirs, files)
                /\ e = NoEntry => getChildFilesIndexes(dirs, files, p) = {}
                /\ getChildFilesIndexes(dirs, files, p) \subseteq 0..(N - 1)
                /\ \A verb \in {"set", "add"} :
                      Range(selectAction(treeSelected,
                                         [verb |-> verb, ids |-> <<p>>]))
                         \subseteq Range(treeSelected) \cup {p}
       /\ OnOpen =>
             /\ lastEvent'.op \in {"open", "openNone"}
             /\ (lastEvent'.op = "open") <=> (selected[1] \in NodePaths)
             /\ <<dirs', files', data'>> = <<dirs, files, data>>
       /\ \A field \in PriorityFields :
             SetPriority(field) =>
                <<dirs', files', data'>> = <<dirs, files, data>>]_vars

\* the leaf a/b was selected, then its directory was renamed: Open finds no
\* entry for the selected path
C16_Witness ==
    /\ lastEvent.op = "openNone"
    /\ selected = << <<"a", "b">> >>
    /\ files[1].fullPath = <<"b", "b">>
    /\ findEntry(dirs, files, selected[1]) = NoEntry

Parses == {"parse", "MalformedPathError"}

\* C17: a parse happens only as the first event of a tree that is not
\* initialized, so at most once; the first snapshot is parsed; an initialized
\* tree stays initialized, every snapshot it gets is handled as an update,
\* and an update keeps every node, path, child list and index of the tree.
C17_ParseOnce ==
    [][/\ lastEvent'.op \in Parses => (~initialized /\ lastEvent.op = "init")
       /\ lastEvent.op = "init" => lastEvent'.op \in Parses
       /\ lastEvent'.op # "init"
       /\ lastEvent'.op = "parse" => initialized'
       /\ initialized => initialized'
       /\ lastEvent'.op \in Updates =>
             /\ initialized
             /\ FullPaths(dirs', files') = FullPaths(dirs, files)
             /\ \A d \in 1..Len(dirs) : dirs'[d].children = dirs[d].children
             /\ \A i \in 1..Len(files) :
                   /\ files'[i].index = files[i].index
                   /\ files'[i].size = files[i].size
                   /\ files'[i].parent = files[i].parent]_vars

\* a later snapshot named a path the tree does not hold: it was handled as an
\* update and the tree still has the nodes of the first snapshot
C17_Witness ==
    /\ lastEvent.op = "updateDropped"
    /\ lastEvent.dropped = <<UnknownPath>>
    /\ initialized
    /\ FullPaths(dirs, files)[2] = [i \in 1..N |-> torrent[i].name]
    /\ findEntry(dirs, files, UnknownPath) = NoEntry

\* C18: the client receives a request only in a run of a registered method,
\* and then exactly one; a run of any other method sends nothing.  The ids
\* of the request are the members of selectedTorrents, each once, and
\* selectedTorrents is what the last setSelected stored: no run changes it
\* or the torrents list.
C18_RunDispatch ==
    [][/\ sent' # sent =>
             /\ sent' = sent + 1
             /\ lastRun' \in ActionMethods
             /\ lastCall'.call \in {"torrentAction", "torrentMove"}
             /\ (lastCall'.call = "torrentMove") <=> (lastRun' = "changeDirectory")
             /\ Range(lastCall'.ids) = Range(selectedTorrents)
             /\ NoDup(lastCall'.ids)
       /\ sent' = sent => lastCall' = lastCall
       /\ \A in \in RunInputs :
             run(in) =>
                /\ (in.method \in ActionMethods) <=> (sent' = sent + 1)
                /\ selectedTorrents' = selectedTorrents
                /\ torrents' = torrents
       /\ \A sel \in Selections :
             setSelected(sel) => (selectedTorrents' = sel /\ sent' = sent)]_vars

\* both torrents are listed, one is selected, and verify was sent for it
C18_Witness ==
    /\ sent = 1
    /\ lastRun = "verify"
    /\ lastCall.method = "torrent-verify"
    /\ lastCall.ids = <<2>>
    /\ selectedTorrents = <<2>>
    /\ Len(torrents) = 2

\* the pending flag of the node a path names
NodeUpdating(ds, fs, p) ==
    LET e == findEntry(ds, fs, p)
    IN IF e = NoEntry THEN FALSE
       ELSE IF e.isDir THEN ds[e.id].wantedUpdating
            ELSE fs[e.id].wantedUpdating

\* C19: a files-wanted / files-unwanted request is sent only by a checkbox
\* change, and only for an entry whose node is not wantedUpdating in the tree
\* at that moment; in the same step the tree already holds the new wanted
\* state on every leaf the request names and the entry is wantedUpdating, so
\* no further request for it can follow until an update clears the flag.
C19_NoSecondToggle ==
    [][/\ \A r \in 1..Len(data) :
             CheckboxChange(r) =>
                LET p == data[r].fullPath
                    state == ~Checked(data[r])
                IN /\ ~NodeUpdating(dirs, files, p)
                   /\ NodeUpdating(dirs', files', p)
                   /\ \E q \in 1..Len(data') :
                         /\ data'[q].fullPath = p
                         /\ data'[q].wantedUpdating
                   /\ \E req \in wantedReqs' :
                         /\ req.field = (IF state THEN "files-wanted"
                                         ELSE "files-unwanted")
                         /\ req.ids = IndexesAt(files, p)
                         /\ \A i \in 1..Len(files) :
                               files[i].index \in req.ids =>
                                  /\ files'[i].wanted = state
                                  /\ files'[i].wantedUpdating
       /\ ~(wantedReqs' \subseteq wantedReqs) => lastEvent'.op = "toggle"
       /\ lastEvent'.op = "toggle" =>
             \E r \in 1..Len(data) :
                /\ ~data[r].wantedUpdating
                /\ ~NodeUpdating(dirs, files, data[r].fullPath)
                /\ NodeUpdating(dirs', files', data[r].fullPath)]_vars

\* the leaf a/b is pending after its toggle and shows no checkbox, while the
\* checkbox of a/c/d is still offered
C19_Witness ==
    /\ lastEvent.op = "toggle"
    /\ \E req \in wantedReqs : req.field = "files-unwanted" /\ req.ids = {0}
    /\ files[1].wantedUpdating
    /\ ~files[1].wanted
    /\ \E q \in 1..Len(data) :
          data[q].fullPath = files[1].fullPath /\ data[q].wantedUpdating
    /\ \E q \in 1..Len(data) :
          data[q].fullPath = files[2].fullPath /\ ~data[q].wantedUpdating

====
